---------------------------- MODULE Spec2Model ----------------------------
(***************************************************************************)
(* Model of src/handler.go: the blended-index HTTP handler, its daily      *)
(* snapshot cache (PrepareSymbolJSONData / saveData), the calendar forward *)
(* fill (forwardFillStockData / incrementDate) and the index composition.  *)
(*                                                                         *)
(* Representation choices                                                  *)
(*  - A date string "YYYY-MM-DD" is the triple <<y, m, d>> of its three    *)
(*    fixed-width zero-padded fields; the empty string is <<>>.  Go's      *)
(*    string comparison on such strings is the lexicographic comparison of *)
(*    the fields, and "" is below every other string.  A triple need not   *)
(*    be a calendar date (<<2019, 12, 32>> is the string "2019-12-32").    *)
(*  - A byte string (an HTTP body, a file) is a sequence of tokens: the    *)
(*    JSON array brackets, one token per bar object, and the zero byte a   *)
(*    write past the end of a truncated file leaves behind.                *)
(*  - A float64 is an exact rational [kind |-> "fin", num, den] or one of  *)
(*    the IEEE values "nan", "+inf", "-inf" a division by zero yields.     *)
(*  - A request token is a sequence of one-character strings.              *)
(*  - The snapshot key's date (time.Now().UTC() formatted) is a day        *)
(*    number; formatting is injective on days.                             *)
(***************************************************************************)
EXTENDS Integers, Sequences, FiniteSets, TLC

VARIABLES
    req,        \* per request slot: the locals of Handler and of its callees
    files,      \* snapshot store: key -> bytes of the file
    fileExists, \* snapshot store: the keys whose file exists
    dirs,       \* the symbol directories that exist
    today,      \* the current UTC day
    alive,      \* FALSE once log.Fatal has ended the process
    started,    \* number of requests received so far
    fetchCount, \* key -> number of readDataFromURL calls made for it
    saveCount   \* key -> number of saveData calls that completed for it

vars == <<req, files, fileExists, dirs, today, alive, started, fetchCount, saveCount>>

---------------------------------------------------------------------------
(* Bounds of the model *)

NumProc == 2        \* concurrent request slots
MaxRequests == 2    \* requests received in one run
MaxDay == 2         \* UTC days the clock runs through
ChunkLen == 2       \* tokens one write step transfers
MaxFilled == 6      \* cap on the length of filledData in a walk that never ends

Procs == 1..NumProc
Days == 1..MaxDay

---------------------------------------------------------------------------
(* Date strings *)

EmptyString == <<>>

\* Go's <= on strings, for the strings the model holds.
StrLeq(a, b) ==
    IF a = EmptyString THEN TRUE
    ELSE IF b = EmptyString THEN FALSE
    ELSE \/ a[1] < b[1]
         \/ a[1] = b[1] /\ a[2] < b[2]
         \/ a[1] = b[1] /\ a[2] = b[2] /\ a[3] <= b[3]

IsLeap(y) == (y % 4 = 0 /\ y % 100 # 0) \/ y % 400 = 0

DaysIn(y, m) ==
    IF m = 2 THEN (IF IsLeap(y) THEN 29 ELSE 28)
    ELSE IF m \in {4, 6, 9, 11} THEN 30 ELSE 31

\* time.Parse(time.DateOnly, s) succeeds.
ParseOK(s) ==
    /\ s # EmptyString
    /\ s[2] \in 1..12
    /\ s[3] \in 1..DaysIn(s[1], s[2])

\* t.AddDate(0, 0, 1) followed by Format: the day after, normalised.
AddDay(s) ==
    IF s[3] < DaysIn(s[1], s[2]) THEN <<s[1], s[2], s[3] + 1>>
    ELSE IF s[2] < 12 THEN <<s[1], s[2] + 1, 1>>
    ELSE <<s[1] + 1, 1, 1>>

incrementDate(date) == IF ParseOK(date) THEN AddDay(date) ELSE EmptyString


---------------------------------------------------------------------------
(* StockData, byte strings and JSON decoding *)

\* A StockData value whose price fields derive from one number v.
Bar(date, v) ==
    [Date |-> date, Open |-> v, High |-> v + 1, Low |-> v - 1, Close |-> v,
     AdjClose |-> v, Volume |-> 10 * v]

LBracket == [tok |-> "["]
RBracket == [tok |-> "]"]
Nul == [tok |-> "nul"]
BarTok(b) == [tok |-> "bar", bar |-> b]

\* The JSON text of a series: "[", one object per bar, "]".
Encode(series) ==
    <<LBracket>> \o [i \in 1..Len(series) |-> BarTok(series[i])] \o <<RBracket>>

\* json.Unmarshal(bytes, &stockData) returns a nil error.
DecodeOK(bytes) ==
    /\ Len(bytes) >= 2
    /\ bytes[1].tok = "["
    /\ bytes[Len(bytes)].tok = "]"
    /\ \A i \in 2..(Len(bytes) - 1) : bytes[i].tok = "bar"

\* The []StockData json.Unmarshal fills in when it succeeds.
DecodeSeries(bytes) == [i \in 1..(Len(bytes) - 2) |-> bytes[i + 1].bar]

Max(a, b) == IF a >= b THEN a ELSE b
Min(a, b) == IF a <= b THEN a ELSE b

\* os.Create on an existing file truncates it; a later Write through another
\* descriptor lands at that descriptor's own offset, zero-filling any gap.
WriteAt(content, off, chunk) ==
    [i \in 1..Max(Len(content), off + Len(chunk)) |->
        IF i > off /\ i <= off + Len(chunk) THEN chunk[i - off]
        ELSE IF i <= Len(content) THEN content[i]
        ELSE Nul]

---------------------------------------------------------------------------
(* forwardFillStockData: the loop body and the loop condition *)

\* stockDataMap[date] exists (lines 193-196, 204).
InMap(stockData, date) == \E i \in 1..Len(stockData) : stockData[i].Date = date

\* stockDataMap[date]: a later entry of the slice overwrites an earlier one.
MapGet(stockData, date) ==
    LET I == {i \in 1..Len(stockData) : stockData[i].Date = date}
    IN  stockData[CHOOSE i \in I : \A j \in I : j <= i]

\* Variant: the carried bar keeps the date of the bar it copies.
CarryForwardStale(lastData, currentDate) == lastData

\* The synthetic bar of lines 209-218.
CarryForward(lastData, currentDate) ==
    [Date |-> currentDate, Open |-> lastData.Open, High |-> lastData.High,
     Low |-> lastData.Low, Close |-> lastData.Close,
     AdjClose |-> lastData.AdjClose, Volume |-> lastData.Volume]

\* filledData after one iteration of the loop body (lines 204-221).
FillOne(stockData, currentDate, filledData) ==
    IF InMap(stockData, currentDate)
    THEN Append(filledData, MapGet(stockData, currentDate))
    ELSE IF Len(filledData) > 0
         THEN Append(filledData, CarryForward(filledData[Len(filledData)], currentDate))
         ELSE filledData

\* The loop condition of line 203.
WalkContinues(currentDate, endDate) == StrLeq(currentDate, endDate)

---------------------------------------------------------------------------
(* Index arithmetic *)

Fin(n, d) == [kind |-> "fin", num |-> n, den |-> d]
NaN == [kind |-> "nan", num |-> 0, den |-> 1]
PosInf == [kind |-> "+inf", num |-> 0, den |-> 1]
NegInf == [kind |-> "-inf", num |-> 0, den |-> 1]

\* (currentIndexValue / initialIndexValue) * 100 in float64 (line 118):
\* a zero divisor gives NaN or an infinity, never a panic.
IndexValue(currentIndexValue, initialIndexValue) ==
    IF initialIndexValue # 0 THEN Fin(currentIndexValue * 100, initialIndexValue)
    ELSE IF currentIndexValue = 0 THEN NaN
    ELSE IF currentIndexValue > 0 THEN PosInf ELSE NegInf

\* The weighted sum of lines 114 and 117.
Weighted(btc, voo, ratioBTC, ratioVOO) ==
    (btc.AdjClose * ratioBTC) + (voo.AdjClose * ratioVOO)

\* json.Marshal rejects NaN and the infinities (UnsupportedValueError).
MarshalOK(stockDataIndex) ==
    \A i \in 1..Len(stockDataIndex) : stockDataIndex[i].AdjClose.kind = "fin"

---------------------------------------------------------------------------
(* Request tokens and presets *)

UpperChar(c) ==
    CASE c = "q" -> "Q" [] c = "u" -> "U" [] c = "a" -> "A" [] c = "r" -> "R"
      [] c = "t" -> "T" [] c = "z" -> "Z" [] c = "f" -> "F" [] c = "o" -> "O"
      [] OTHER -> c

\* strings.ToUpper
ToUpper(s) == [i \in 1..Len(s) |-> UpperChar(s[i])]

QUARTZ9 == <<"Q", "U", "A", "R", "T", "Z", "9">>
QUARTZ7 == <<"Q", "U", "A", "R", "T", "Z", "7">>
QUARTZ5 == <<"Q", "U", "A", "R", "T", "Z", "5">>

\* The switch of lines 73-86 on the upper-cased symbol.
Preset(symbol) ==
    CASE symbol = QUARTZ9 -> [ok |-> TRUE, ratioVOO |-> 9, ratioBTC |-> 1]
      [] symbol = QUARTZ7 -> [ok |-> TRUE, ratioVOO |-> 7, ratioBTC |-> 3]
      [] symbol = QUARTZ5 -> [ok |-> TRUE, ratioVOO |-> 5, ratioBTC |-> 5]
      [] OTHER -> [ok |-> FALSE, ratioVOO |-> 9, ratioBTC |-> 1]

\* Variant: the switch has no default case, so any non-empty token goes on
\* with the ratios of lines 60-61.
AcceptsNoDefault(symbol) == symbol # <<>>

\* Lines 64-86: the request is let through to the data pipeline.
Accepts(symbol) == symbol # <<>> /\ Preset(ToUpper(symbol)).ok

---------------------------------------------------------------------------
(* Inputs: request tokens and what the upstream API may answer *)

Tokens ==
    { <<>>,
      <<"F", "O", "O">>,
      <<"q", "u", "a", "r", "t", "z">>,
      <<"q", "u", "a", "r", "t", "z", "9">>,
      <<"Q", "u", "a", "r", "t", "z", "7">>,
      QUARTZ5 }

VOO == "VOO.US"
BTC == "BTC-USD.CC"
Symbols == {VOO, BTC}
Keys == Symbols \X Days

Jan(n) == <<2019, 1, n>>
HandlerStartDate == Jan(2)      \* the "2019-01-02" of lines 89, 94 and 99

\* Bodies readDataFromURL may return: well-formed arrays and, for the equity
\* symbol, a response cut short.
UpstreamBodies(sym) ==
    IF sym = VOO
    THEN { Encode(<<Bar(Jan(2), 3)>>),
           <<LBracket, BarTok(Bar(Jan(2), 3))>> }
    ELSE { Encode(<<Bar(Jan(2), 1), Bar(Jan(3), 2)>>),
           Encode(<<Bar(Jan(2), 2)>>) }

\* readDataFromURL (lines 229-244): an error, or a body.
FetchResults(sym) ==
    {[err |-> TRUE, body |-> <<>>]}
        \cup {[err |-> FALSE, body |-> b] : b \in UpstreamBodies(sym)}

---------------------------------------------------------------------------
(* The locals of one request *)

ReqIdle ==
    [pc |-> "idle",
     \* Handler
     symbol |-> <<>>, ratioVOO |-> 9, ratioBTC |-> 1,
     stockDataVOO |-> <<>>, stockDataBTC |-> <<>>, stockDataVOOFF |-> <<>>,
     stockDataIndex |-> <<>>, initialIndexValue |-> 0,
     status |-> 0, panicked |-> FALSE,
     \* PrepareSymbolJSONData and saveData
     psym |-> VOO, currentUTCDate |-> 1, body |-> <<>>, offset |-> 0,
     fileData |-> <<>>, hasRead |-> FALSE,
     \* forwardFillStockData
     caller |-> "Handler", stockData |-> <<>>, startDate |-> EmptyString,
     endDate |-> EmptyString, currentDate |-> EmptyString, filledData |-> <<>>,
     \* history of the request, read only by the properties
     sawExisting |-> FALSE, fetched |-> FALSE, fetches |-> 0, wrote |-> FALSE,
     err |-> "none"]

Key(p) == <<req[p].psym, req[p].currentUTCDate>>

\* log.Fatal: the request's slot as the process exits.
Fatal(p, why) == [req EXCEPT ![p].pc = "fatal", ![p].err = why]

\* A panic in the handler goroutine: net/http recovers it and drops the
\* connection; no response is written.
Panic(p) == [req EXCEPT ![p].pc = "done", ![p].panicked = TRUE]

\* Variant: the existence check always takes the fetch branch.
SnapshotMissingAlways(key) == TRUE

\* os.Stat(fullPath) reports that the file does not exist (line 150).
SnapshotMissing(key) == key \notin fileExists

---------------------------------------------------------------------------
(* Handler, lines 47-86: token check and preset *)

HandlerStart(p) ==
    /\ alive
    /\ req[p].pc \in {"idle", "done"}
    /\ started < MaxRequests
    /\ \E symbol \in Tokens :
         req' = [req EXCEPT ![p] =
                    IF Accepts(symbol)
                    THEN [ReqIdle EXCEPT
                            !.pc = "prepare",
                            !.symbol = ToUpper(symbol),
                            !.ratioVOO = Preset(ToUpper(symbol)).ratioVOO,
                            !.ratioBTC = Preset(ToUpper(symbol)).ratioBTC,
                            !.psym = VOO]
                    ELSE [ReqIdle EXCEPT
                            !.pc = "done", !.symbol = symbol, !.status = 400]]
    /\ started' = started + 1
    /\ UNCHANGED <<files, fileExists, dirs, today, alive, fetchCount, saveCount>>

---------------------------------------------------------------------------
(* PrepareSymbolJSONData, lines 140-188, and saveData, lines 248-275 *)

\* Lines 144-150: today's key and the existence check.
PrepStat(p) ==
    /\ alive
    /\ req[p].pc = "prepare"
    /\ req' = [req EXCEPT
                 ![p].currentUTCDate = today,
                 ![p].sawExisting = (<<req[p].psym, today>> \in fileExists),
                 ![p].fetched = FALSE,
                 ![p].hasRead = FALSE,
                 ![p].fileData = <<>>,
                 ![p].pc = IF SnapshotMissing(<<req[p].psym, today>>)
                           THEN "fetch" ELSE "read"]
    /\ UNCHANGED <<files, fileExists, dirs, today, alive, started, fetchCount, saveCount>>

\* Lines 152-161: fetch and decode the body.
PrepFetch(p) ==
    /\ alive
    /\ req[p].pc = "fetch"
    /\ \E r \in FetchResults(req[p].psym) :
         /\ req' = IF r.err
                   THEN [Fatal(p, "fetch") EXCEPT
                            ![p].fetched = TRUE, ![p].fetches = @ + 1]
                   ELSE IF ~DecodeOK(r.body)
                   THEN [Fatal(p, "decode") EXCEPT
                            ![p].fetched = TRUE, ![p].fetches = @ + 1]
                   ELSE [req EXCEPT
                            ![p].fetched = TRUE, ![p].fetches = @ + 1,
                            ![p].body = r.body, ![p].pc = "saveData"]
         /\ alive' = (~r.err /\ DecodeOK(r.body))
    /\ fetchCount' = [fetchCount EXCEPT ![Key(p)] = @ + 1]
    /\ UNCHANGED <<files, fileExists, dirs, today, started, saveCount>>

\* saveData, lines 250-255: make the directory if it is missing.
SaveMkdir(p) ==
    /\ alive
    /\ req[p].pc = "saveData"
    /\ \E ok \in BOOLEAN :
         /\ (req[p].psym \in dirs) => ok
         /\ req' = IF ok THEN [req EXCEPT ![p].pc = "create"]
                   ELSE Fatal(p, "persist")
         /\ dirs' = IF ok THEN dirs \cup {req[p].psym} ELSE dirs
         /\ alive' = ok
    /\ UNCHANGED <<files, fileExists, today, started, fetchCount, saveCount>>

\* saveData, line 261: os.Create makes the file or truncates the one there.
SaveCreate(p) ==
    /\ alive
    /\ req[p].pc = "create"
    /\ \E ok \in BOOLEAN :
         /\ req' = IF ok
                   THEN [req EXCEPT ![p].pc = "write", ![p].offset = 0,
                                    ![p].wrote = TRUE]
                   ELSE Fatal(p, "persist")
         /\ fileExists' = IF ok THEN fileExists \cup {Key(p)} ELSE fileExists
         /\ files' = IF ok THEN [files EXCEPT ![Key(p)] = <<>>] ELSE files
         /\ alive' = ok
    /\ UNCHANGED <<dirs, today, started, fetchCount, saveCount>>

\* The next piece of the body file.Write transfers.
NextChunk(body, offset) == SubSeq(body, offset + 1, Min(offset + ChunkLen, Len(body)))

\* saveData, lines 268-275: file.Write, a chunk at a time; after the last
\* chunk saveData returns and line 170 is passed.
SaveWrite(p) ==
    /\ alive
    /\ req[p].pc = "write"
    /\ \E ok \in BOOLEAN :
         LET chunk == NextChunk(req[p].body, req[p].offset)
             end == req[p].offset + Len(chunk)
         IN  /\ req' = IF ok
                       THEN [req EXCEPT
                               ![p].offset = end,
                               ![p].pc = IF end = Len(req[p].body)
                                         THEN "read" ELSE "write"]
                       ELSE Fatal(p, "persist")
             /\ files' = IF ok
                         THEN [files EXCEPT ![Key(p)] = WriteAt(@, req[p].offset, chunk)]
                         ELSE files
             /\ saveCount' = IF ok /\ end = Len(req[p].body)
                             THEN [saveCount EXCEPT ![Key(p)] = @ + 1]
                             ELSE saveCount
             /\ alive' = ok
    /\ UNCHANGED <<fileExists, dirs, today, started, fetchCount>>

\* Lines 174-187: read the file back, decode it, return the series; Handler
\* (lines 89-98) then goes on to the second symbol or to the alignment.
PrepRead(p) ==
    /\ alive
    /\ req[p].pc = "read"
    /\ \E ok \in BOOLEAN :
         /\ (Key(p) \notin fileExists) => ~ok
         /\ LET fileData == files[Key(p)]
            IN  /\ req' = IF ~ok THEN Fatal(p, "readfile")
                          ELSE IF ~DecodeOK(fileData)
                          THEN [Fatal(p, "decode-file") EXCEPT
                                  ![p].fileData = fileData, ![p].hasRead = TRUE]
                          ELSE IF req[p].psym = VOO
                          THEN [req EXCEPT
                                  ![p].fileData = fileData, ![p].hasRead = TRUE,
                                  ![p].body = <<>>, ![p].offset = 0,
                                  ![p].stockDataVOO = DecodeSeries(fileData),
                                  ![p].psym = BTC,
                                  ![p].pc = "prepare"]
                          ELSE [req EXCEPT
                                  ![p].fileData = fileData, ![p].hasRead = TRUE,
                                  ![p].body = <<>>, ![p].offset = 0,
                                  ![p].stockDataBTC = DecodeSeries(fileData),
                                  ![p].pc = "align"]
                /\ alive' = (ok /\ DecodeOK(fileData))
    /\ UNCHANGED <<files, fileExists, dirs, today, started, fetchCount, saveCount>>

---------------------------------------------------------------------------
(* Handler, line 99, and forwardFillStockData, lines 191-226 *)

\* Line 99: the call's arguments; indexing an empty crypto series panics.
HandlerAlign(p) ==
    /\ alive
    /\ req[p].pc = "align"
    /\ req' = IF Len(req[p].stockDataBTC) = 0
              THEN Panic(p)
              ELSE [req EXCEPT
                      ![p].pc = "ff",
                      ![p].caller = "Handler",
                      ![p].stockData = req[p].stockDataVOO,
                      ![p].startDate = HandlerStartDate,
                      ![p].endDate = req[p].stockDataBTC[Len(req[p].stockDataBTC)].Date,
                      ![p].currentDate = HandlerStartDate,
                      ![p].filledData = <<>>]
    /\ UNCHANGED <<files, fileExists, dirs, today, alive, started, fetchCount, saveCount>>

\* One iteration of the loop of lines 203-223.
FFStep(p) ==
    /\ alive
    /\ req[p].pc = "ff"
    /\ WalkContinues(req[p].currentDate, req[p].endDate)
    /\ Len(req[p].filledData) < MaxFilled
    /\ req' = [req EXCEPT
                 ![p].filledData = FillOne(req[p].stockData, req[p].currentDate, @),
                 ![p].currentDate = incrementDate(@)]
    /\ UNCHANGED <<files, fileExists, dirs, today, alive, started, fetchCount, saveCount>>

\* The loop condition fails: line 225 returns filledData.
FFReturn(p) ==
    /\ alive
    /\ req[p].pc = "ff"
    /\ ~WalkContinues(req[p].currentDate, req[p].endDate)
    /\ req' = IF req[p].caller = "Handler"
              THEN [req EXCEPT ![p].pc = "compose",
                               ![p].stockDataVOOFF = req[p].filledData]
              ELSE [req EXCEPT ![p].pc = "returned"]
    /\ UNCHANGED <<files, fileExists, dirs, today, alive, started, fetchCount, saveCount>>

---------------------------------------------------------------------------
(* Handler, lines 101-137: composition and response *)

\* The slice built by lines 107-123 when no index is out of range.
ComposeIndex(stockDataBTC, stockDataVOOFF, ratioBTC, ratioVOO) ==
    LET initialIndexValue ==
            Weighted(stockDataBTC[1], stockDataVOOFF[1], ratioBTC, ratioVOO)
    IN  [i \in 1..Len(stockDataBTC) |->
            IF i = 1
            THEN [Date |-> stockDataBTC[1].Date, AdjClose |-> Fin(100, 1)]
            ELSE [Date |-> stockDataBTC[i].Date,
                  AdjClose |-> IndexValue(
                      Weighted(stockDataBTC[i], stockDataVOOFF[i], ratioBTC, ratioVOO),
                      initialIndexValue)]]

\* Lines 107-123: stockDataVOOFF[0] and stockDataVOOFF[i] panic when the
\* filled series is shorter than the crypto series.
HandlerCompose(p) ==
    /\ alive
    /\ req[p].pc = "compose"
    /\ req' = IF Len(req[p].stockDataVOOFF) < Len(req[p].stockDataBTC)
              THEN Panic(p)
              ELSE [req EXCEPT
                      ![p].pc = "marshal",
                      ![p].initialIndexValue =
                          Weighted(req[p].stockDataBTC[1], req[p].stockDataVOOFF[1],
                                   req[p].ratioBTC, req[p].ratioVOO),
                      ![p].stockDataIndex =
                          ComposeIndex(req[p].stockDataBTC, req[p].stockDataVOOFF,
                                       req[p].ratioBTC, req[p].ratioVOO)]
    /\ UNCHANGED <<files, fileExists, dirs, today, alive, started, fetchCount, saveCount>>

\* Lines 126-137: marshal and write the response.
HandlerRespond(p) ==
    /\ alive
    /\ req[p].pc = "marshal"
    /\ req' = IF MarshalOK(req[p].stockDataIndex)
              THEN [req EXCEPT ![p].pc = "done", ![p].status = 200]
              ELSE Fatal(p, "marshal")
    /\ alive' = MarshalOK(req[p].stockDataIndex)
    /\ UNCHANGED <<files, fileExists, dirs, today, started, fetchCount, saveCount>>

\* UTC midnight passes.
Tick ==
    /\ alive
    /\ today < MaxDay
    /\ today' = today + 1
    /\ UNCHANGED <<req, files, fileExists, dirs, alive, started, fetchCount, saveCount>>

---------------------------------------------------------------------------
(* Spec: the server, requests handled concurrently *)

Init ==
    /\ req = [p \in Procs |-> ReqIdle]
    /\ files = [k \in Keys |-> <<>>]
    /\ fileExists = {}
    /\ dirs = {}
    /\ today = 1
    /\ alive = TRUE
    /\ started = 0
    /\ fetchCount = [k \in Keys |-> 0]
    /\ saveCount = [k \in Keys |-> 0]

Step(p) ==
    \/ PrepStat(p)
    \/ PrepFetch(p)
    \/ SaveMkdir(p)
    \/ SaveCreate(p)
    \/ SaveWrite(p)
    \/ PrepRead(p)
    \/ HandlerAlign(p)
    \/ FFStep(p)
    \/ FFReturn(p)
    \/ HandlerCompose(p)
    \/ HandlerRespond(p)

Next ==
    \/ \E p \in Procs : HandlerStart(p)
    \/ \E p \in Procs : Step(p)
    \/ Tick

Spec == Init /\ [][Next]_vars

---------------------------------------------------------------------------
(* SpecSeq: the same server when requests arrive one after the other *)

NoneActive == \A q \in Procs : req[q].pc \in {"idle", "done"}

NextSeq ==
    \/ \E p \in Procs : NoneActive /\ HandlerStart(p)
    \/ \E p \in Procs : Step(p)
    \/ Tick

SpecSeq == Init /\ [][NextSeq]_vars

---------------------------------------------------------------------------
(* SpecFF: forwardFillStockData called on its own, on bounded arguments *)

\* Four consecutive calendar days across a month and year end.
CalWindow == << <<2019, 12, 30>>, <<2019, 12, 31>>, <<2020, 1, 1>>, <<2020, 1, 2>> >>

\* startDate and endDate strings: the window's days, the empty string and a
\* string that is no calendar date.
FFStrings == {CalWindow[i] : i \in 1..Len(CalWindow)} \cup {EmptyString, <<2019, 12, 32>>}

\* The elements of a set of numbers as an ascending sequence.
Ascending(S) ==
    [k \in 1..Cardinality(S) |->
        CHOOSE i \in S : Cardinality({j \in S : j < i}) = k - 1]

\* Every series with unique ascending dates of the window; the values of a
\* bar tell its day.
FFSeries ==
    { [k \in 1..Cardinality(S) |-> Bar(CalWindow[Ascending(S)[k]], 10 * Ascending(S)[k])]
        : S \in SUBSET (1..Len(CalWindow)) }

\* The rest of the state, as after construction.
RestInit ==
    /\ files = [k \in Keys |-> <<>>]
    /\ fileExists = {}
    /\ dirs = {}
    /\ today = 1
    /\ alive = TRUE
    /\ started = 0
    /\ fetchCount = [k \in Keys |-> 0]
    /\ saveCount = [k \in Keys |-> 0]

\* Lines 191-202: the call, with currentDate := startDate.
InitFF ==
    /\ \E s \in FFSeries, a \in FFStrings, b \in FFStrings :
         req = [p \in Procs |->
                  IF p = 1
                  THEN [ReqIdle EXCEPT
                          !.pc = "ff", !.caller = "direct", !.stockData = s,
                          !.startDate = a, !.endDate = b, !.currentDate = a]
                  ELSE ReqIdle]
    /\ RestInit

NextFF == FFStep(1) \/ FFReturn(1)

SpecFF == InitFF /\ [][NextFF]_vars

---------------------------------------------------------------------------
(* SpecCompose: Handler from line 99 on, for bounded pairs of decoded series *)

ComposeDays == {2, 3, 4}
ComposeValues == {0, 2}

\* Series with unique ascending dates in January 2019, adjusted closes 0 or 2.
ComposeSeries ==
    UNION { { [k \in 1..Cardinality(S) |-> Bar(Jan(Ascending(S)[k]), v[Ascending(S)[k]])]
                : v \in [S -> ComposeValues] }
            : S \in SUBSET ComposeDays }

InitCompose ==
    /\ \E symbol \in {QUARTZ9, QUARTZ7, QUARTZ5},
          voo \in ComposeSeries, btc \in ComposeSeries :
         req = [p \in Procs |->
                  IF p = 1
                  THEN [ReqIdle EXCEPT
                          !.pc = "align", !.symbol = symbol,
                          !.ratioVOO = Preset(symbol).ratioVOO,
                          !.ratioBTC = Preset(symbol).ratioBTC,
                          !.psym = BTC,
                          !.stockDataVOO = voo, !.stockDataBTC = btc]
                  ELSE ReqIdle]
    /\ RestInit

NextCompose ==
    \/ HandlerAlign(1)
    \/ FFStep(1)
    \/ FFReturn(1)
    \/ HandlerCompose(1)
    \/ HandlerRespond(1)

SpecCompose == InitCompose /\ [][NextCompose]_vars

---------------------------------------------------------------------------
(* Properties *)

\* A complete payload of the upstream for a symbol.
CompletePayload(sym, bytes) == bytes \in UpstreamBodies(sym) /\ DecodeOK(bytes)

C2_CachedNoFetch ==
    /\ \A p \in Procs : req[p].sawExisting => ~req[p].fetched
    /\ \A p \in Procs :
         (req[p].sawExisting /\ req[p].pc = "prepare" /\ req[p].psym = BTC)
            => req[p].stockDataVOO = DecodeSeries(files[<<VOO, req[p].currentUTCDate>>])
    /\ \A p \in Procs :
         (req[p].sawExisting /\ req[p].pc = "align")
            => req[p].stockDataBTC = DecodeSeries(files[Key(p)])
    /\ \A k \in Keys : fetchCount[k] <= 1

\* C2 witness: a later request was served both series from the stored
\* snapshots of a day on which each was fetched once.
C2_Witness ==
    \E p \in Procs :
        /\ req[p].pc = "align"
        /\ req[p].sawExisting
        /\ req[p].fetches = 0
        /\ Len(req[p].stockDataVOO) > 0
        /\ Len(req[p].stockDataBTC) > 0
        /\ fetchCount[<<VOO, req[p].currentUTCDate>>] = 1
        /\ fetchCount[Key(p)] = 1

\* C3: once a snapshot has been written for a key it is never written again
\* and its bytes never change.
C3_Immutable ==
    [][\A k \in Keys :
          saveCount[k] >= 1 => (files'[k] = files[k] /\ saveCount'[k] = saveCount[k])]_vars

\* C4: a failed fetch or an undecodable payload ends the request with a 5xx
\* response and leaves the process running.
C4_DependencyFailure ==
    \A p \in Procs :
        req[p].err \in {"fetch", "decode", "decode-file"}
            => (alive /\ req[p].pc = "done" /\ req[p].status >= 500)

\* C5: a failure to persist the snapshot neither fails the request nor ends
\* the process.
C5_PersistNonFatal ==
    \A p \in Procs : req[p].err = "persist" => (alive /\ req[p].pc # "fatal")

\* The token is one of the presets once upper-cased.
ValidToken(symbol) == ToUpper(symbol) \in {QUARTZ9, QUARTZ7, QUARTZ5}

\* C6: a request whose token is empty or no preset after upper-casing is
\* answered 400 at once: it fetches nothing, changes nothing in the store,
\* panics nowhere and hits no fatal error.
C6_BadTokenRejected ==
    \A p \in Procs :
        (req[p].pc # "idle" /\ ~ValidToken(req[p].symbol))
            => /\ req[p].pc = "done"
               /\ req[p].status = 400
               /\ req[p].fetches = 0
               /\ ~req[p].wrote
               /\ ~req[p].panicked
               /\ req[p].err = "none"

\* C6 witness: an unknown token has been answered 400 by a running server
\* whose store holds a snapshot written for another request.
C6_Witness ==
    /\ \E p \in Procs : req[p].status = 400 /\ req[p].symbol = <<"F", "O", "O">>
    /\ fileExists # {}
    /\ alive


StrLt(a, b) == StrLeq(a, b) /\ a # b

\* The call under SpecFF has returned from valid dates startDate <= endDate.
FFReturned(r) ==
    /\ r.pc = "returned"
    /\ ParseOK(r.startDate)
    /\ ParseOK(r.endDate)
    /\ StrLeq(r.startDate, r.endDate)

\* The series has an observation dated from..d.
ObservedIn(series, from, d) ==
    \E i \in 1..Len(series) : StrLeq(from, series[i].Date) /\ StrLeq(series[i].Date, d)

\* The series has an observation dated on or before d.
ObservedBy(series, d) == \E i \in 1..Len(series) : StrLeq(series[i].Date, d)

\* The latest observation dated before d.
LastBefore(series, d) ==
    LET I == {i \in 1..Len(series) : StrLt(series[i].Date, d)}
    IN  series[CHOOSE i \in I : \A j \in I : j <= i]

\* out has one entry per date of dates, in that order: the series' own bar
\* where it has one, else the latest earlier bar with the date replaced.
FilledAs(series, out, dates) ==
    /\ Len(out) = Len(dates)
    /\ \A k \in 1..Len(dates) :
         /\ out[k].Date = dates[k]
         /\ IF \E i \in 1..Len(series) : series[i].Date = dates[k]
            THEN \E i \in 1..Len(series) : out[k] = series[i]
            ELSE out[k] = [LastBefore(series, dates[k]) EXCEPT !.Date = dates[k]]

\* C7, as amended: for a series with unique ascending dates and valid
\* startDate <= endDate, the result has exactly one entry, in ascending order,
\* for each calendar date d of [startDate, endDate] for which the series has an
\* observation dated within [startDate, d]; a date of the series gives its bar
\* verbatim, any other date the latest earlier bar with only the date changed.
C7_ForwardFill ==
    \A p \in Procs :
        FFReturned(req[p]) =>
            FilledAs(req[p].stockData, req[p].filledData,
                     SelectSeq(CalWindow,
                               LAMBDA d : /\ StrLeq(req[p].startDate, d)
                                          /\ StrLeq(d, req[p].endDate)
                                          /\ ObservedIn(req[p].stockData, req[p].startDate, d)))

\* C7 witness: a returned walk that skipped a leading date, copied a bar and
\* carried it forward over the year end.
C7_Witness ==
    \E p \in Procs :
        /\ FFReturned(req[p])
        /\ req[p].startDate = CalWindow[1]
        /\ req[p].endDate = CalWindow[4]
        /\ Len(req[p].stockData) = 1
        /\ req[p].stockData[1].Date = CalWindow[2]
        /\ Len(req[p].filledData) = 3

\* C7 as stated: every calendar date of [startDate, endDate] with an
\* observation on or before it, observations before startDate included, has
\* its entry.
C7_Original ==
    \A p \in Procs :
        FFReturned(req[p]) =>
            FilledAs(req[p].stockData, req[p].filledData,
                     SelectSeq(CalWindow,
                               LAMBDA d : /\ StrLeq(req[p].startDate, d)
                                          /\ StrLeq(d, req[p].endDate)
                                          /\ ObservedBy(req[p].stockData, d)))

\* C8: when Handler composes, the forward-filled equity series is as long as
\* the crypto series and equal indices carry equal dates; no index access
\* panics.
C8_Aligned ==
    \A p \in Procs :
        /\ ~req[p].panicked
        /\ req[p].pc = "compose" =>
              /\ Len(req[p].stockDataVOOFF) = Len(req[p].stockDataBTC)
              /\ \A i \in 1..Len(req[p].stockDataBTC) :
                    req[p].stockDataVOOFF[i].Date = req[p].stockDataBTC[i].Date

\* C9: with a zero baseline no point is computed by dividing by it, no 200 is
\* answered and the process lives on; with a non-zero baseline the first
\* point is exactly 100.
C9_ZeroBaselineRejected ==
    \A p \in Procs :
        Len(req[p].stockDataIndex) > 0 =>
            /\ req[p].initialIndexValue = 0 =>
                  /\ MarshalOK(req[p].stockDataIndex)
                  /\ req[p].status # 200
                  /\ alive
            /\ req[p].initialIndexValue # 0 =>
                  req[p].stockDataIndex[1].AdjClose = Fin(100, 1)

\* C10: once incrementDate has returned its error value the walk stops: the
\* loop is never at its head, about to iterate, with the empty date.
C10_WalkStops ==
    \A p \in Procs :
        (req[p].pc = "ff" /\ req[p].startDate # EmptyString
            /\ req[p].currentDate = EmptyString)
            => ~WalkContinues(req[p].currentDate, req[p].endDate)

============================================================================
